---- MODULE Spec2Model ----
(***************************************************************************)
(* A model of the Telegram bot of src/bot.py: the command handlers, the    *)
(* background generation tasks, the three in-memory dictionaries and the   *)
(* four MongoDB collections.                                               *)
(*                                                                         *)
(* Every handler and every task is an asyncio coroutine.  A step of the    *)
(* model is one uninterrupted run of a coroutine on the event loop: from   *)
(* the point where it is resumed up to and including the call it awaits    *)
(* next (a store operation takes effect, a message is handed to the        *)
(* transport).  A handler whose last await is followed by nothing is       *)
(* retired in the step that issues that await; a task stays unfinished     *)
(* until it is resumed for the last time, since Task.done() is read by the *)
(* cancel commands.  CancelledError reaches a task when it is next resumed.*)
(***************************************************************************)
EXTENDS Integers, Sequences, FiniteSets, TLC

\* ----------------------------------------------------------------- bounds
MaxHandlers == 2        \* handler invocations in flight at the same time
MaxTasks == 2           \* background tasks created in one run
MaxTime == 6            \* largest message date
MaxTurns == 1           \* turns of a /proai loop followed next to other users

\* -------------------------------------------------------------- constants
BOT_OWNER_ID == 1
Cooldown == 5
ProSteps == 15

Users == {1, 2}
Groups == {101}
Codes == {"ABC123"}
Handlers == 1..MaxHandlers

\* message.text.split(' ')[1:] of the messages sent: no word, an empty
\* word (a trailing blank), one word, two words
Texts == {<<>>, <<"">>, <<"ABC123">>, <<"ABC123", "">>}
\* the same for the commands that only look whether a prompt follows
Prompts == {<<>>, <<"ABC123">>}

VARIABLES
    clock,                      \* the date the transport stamps on a message
    LOG_CHANNEL_ID,             \* "" stands for None and for '': both falsy
    last_ai_use,                \* dict user_id -> date
    user_images,                \* dict user_id -> image url
    user_tasks,                 \* dict user_id -> task (index into tasks)
    tasks,                      \* every asyncio task created so far
    users_collection,           \* user_ids with a document
    groups_collection,          \* group_ids with a document
    subscriptions_collection,   \* dict user_id -> plan
    gift_codes_collection,      \* codes with a document
    handlers,                   \* the handler coroutines in flight
    out,                        \* what the last step handed to the transport
    issued,                     \* history: documents ever inserted per code
    redeemed,                   \* history: success replies sent per code
    consumed                    \* history: documents each user's /redeem removed

mem == <<last_ai_use, user_images, user_tasks>>
db == <<users_collection, groups_collection, subscriptions_collection,
        gift_codes_collection>>
hist == <<issued, redeemed, consumed>>
vars == <<clock, LOG_CHANNEL_ID, mem, tasks, db, handlers, out, hist>>

\* ---------------------------------------------------------------- helpers
EmptyDict == [x \in {} |-> 0]

\* the update applied without its {'user_id': ...} filter
Put_nofilter(d, k, v) == [x \in DOMAIN d \cup {k} |-> v]

\* the dict replaced by one that holds the new entry only
Put_fresh(d, k, v) == [x \in {k} |-> v]

\* d[k] = v of a Python dict, and update_one(..., {'$set': ...}, upsert=True)
Put(d, k, v) == [x \in DOMAIN d \cup {k} |-> IF x = k THEN v ELSE d[x]]

NoMsg == [kind |-> "none", to |-> 0, text |-> ""]
Msg(k, to, text) == [kind |-> k, to |-> to, text |-> text]

Idle == [cmd |-> "idle", user |-> 0, args |-> <<>>, pc |-> "idle",
         resp |-> "", gift_code |-> FALSE, subscription |-> "None",
         todo |-> {}]

Free == {h \in Handlers : handlers[h].cmd = "idle"}
NewSlot == CHOOSE h \in Free : \A g \in Free : h <= g

Handler(c, u, args, pc) ==
    [Idle EXCEPT !.cmd = c, !.user = u, !.args = args, !.pc = pc]

\* ' '.join(message.text.split(' ')[1:]) is truthy
Truthy(args) == Len(args) >= 2 \/ (Len(args) = 1 /\ args[1] # "")

\* the owner check that lets everyone through
is_anyone(user_id) == TRUE

is_owner(user_id) == user_id = BOT_OWNER_ID

\* response texts
USAGE == "Usage"
NO_PERMISSION == "You don't have permission to use this command."
NOT_CAPABLE == "Ummmm, you are not capable of it."
REDEEM_OK == "You have successfully redeemed the code"
REDEEM_INVALID == "Invalid or already redeemed gift code."
NEED_REDEEM == "You need to redeem a gift code"
NEED_PROMPT == "Please provide a prompt"
GENERATING == "Generating"
WAIT == "Please wait for 5 seconds"

\* await message.reply(response_text) with log_message still to come
ReplyThenLog(h, rec, text) ==
    /\ handlers' = [handlers EXCEPT ![h] = [rec EXCEPT !.resp = text, !.pc = "log"]]
    /\ out' = Msg("reply", rec.user, text)

\* ------------------------------------------------------------ log_message
\* the tail of every branch that ends in `await log_message(...)`
log_message(h) ==
    /\ handlers[h].pc = "log"
    /\ out' = IF LOG_CHANNEL_ID # ""
              THEN Msg("log", handlers[h].user, handlers[h].resp)
              ELSE NoMsg
    /\ handlers' = [handlers EXCEPT ![h] = Idle]
    /\ UNCHANGED <<clock, LOG_CHANNEL_ID, mem, tasks, db, hist>>

\* ---------------------------------------------------------------- /redeem
\* find_one in place of find_one_and_delete: the document stays
find_one_no_delete(coll, code) ==
    [doc |-> code \in coll, coll |-> coll]

\* delete_one in its place: the result object is truthy whatever it deleted
find_one_and_delete_result(coll, code) ==
    [doc |-> TRUE, coll |-> coll \ {code}]

\* the store's atomic delete-and-return
find_one_and_delete(coll, code) ==
    [doc |-> code \in coll, coll |-> coll \ {code}]

redeem_command(u, args) ==
    /\ Free # {}
    /\ LET h == NewSlot
           rec == Handler("redeem", u, args, "start")
       IN IF Len(args) = 1
          THEN LET r == find_one_and_delete(gift_codes_collection, args[1])
               IN /\ gift_codes_collection' = r.coll
                  /\ handlers' = [handlers EXCEPT ![h] =
                        [rec EXCEPT !.pc = "deleted", !.gift_code = r.doc]]
                  /\ out' = NoMsg
                  /\ consumed' = IF r.coll # gift_codes_collection
                                 THEN [consumed EXCEPT ![u] = @ + 1]
                                 ELSE consumed
          ELSE /\ ReplyThenLog(h, rec, USAGE)
               /\ UNCHANGED <<gift_codes_collection, consumed>>
    /\ UNCHANGED <<clock, LOG_CHANNEL_ID, mem, tasks, users_collection,
                   groups_collection, subscriptions_collection, issued,
                   redeemed>>

\* the upsert made before looking at the result of find_one_and_delete
redeem_deleted_unchecked(h) ==
    /\ handlers[h].cmd = "redeem" /\ handlers[h].pc = "deleted"
    /\ subscriptions_collection' =
          Put(subscriptions_collection, handlers[h].user, "professional")
    /\ IF handlers[h].gift_code
       THEN /\ handlers' = [handlers EXCEPT ![h].pc = "upserted"]
            /\ out' = NoMsg
       ELSE ReplyThenLog(h, handlers[h], REDEEM_INVALID)
    /\ UNCHANGED <<clock, LOG_CHANNEL_ID, mem, tasks, users_collection,
                   groups_collection, gift_codes_collection, hist>>

\* the success path without its update_one
redeem_deleted_no_upsert(h) ==
    /\ handlers[h].cmd = "redeem" /\ handlers[h].pc = "deleted"
    /\ IF handlers[h].gift_code
       THEN /\ handlers' = [handlers EXCEPT ![h].pc = "upserted"]
            /\ out' = NoMsg
       ELSE ReplyThenLog(h, handlers[h], REDEEM_INVALID)
    /\ UNCHANGED <<clock, LOG_CHANNEL_ID, mem, tasks, db, hist>>

\* resumed with the result of find_one_and_delete
redeem_deleted(h) ==
    /\ handlers[h].cmd = "redeem" /\ handlers[h].pc = "deleted"
    /\ IF handlers[h].gift_code
       THEN /\ subscriptions_collection' =
                  Put(subscriptions_collection, handlers[h].user, "professional")
            /\ handlers' = [handlers EXCEPT ![h].pc = "upserted"]
            /\ out' = NoMsg
       ELSE /\ ReplyThenLog(h, handlers[h], REDEEM_INVALID)
            /\ UNCHANGED subscriptions_collection
    /\ UNCHANGED <<clock, LOG_CHANNEL_ID, mem, tasks, users_collection,
                   groups_collection, gift_codes_collection, hist>>

\* resumed after update_one
redeem_upserted(h) ==
    /\ handlers[h].cmd = "redeem" /\ handlers[h].pc = "upserted"
    /\ ReplyThenLog(h, handlers[h], REDEEM_OK)
    /\ redeemed' = [redeemed EXCEPT ![handlers[h].args[1]] = @ + 1]
    /\ UNCHANGED <<clock, LOG_CHANNEL_ID, mem, tasks, db, issued, consumed>>

\* -------------------------------------------------------------- /generate
\* generate_code is defined nowhere: for the owner the call raises NameError
\* before insert_one, the dispatcher logs it and the invocation is over
generate_command(u) ==
    /\ Free # {}
    /\ IF is_owner(u)
       THEN /\ out' = Msg("error", u, "NameError")
            /\ UNCHANGED handlers
       ELSE ReplyThenLog(NewSlot, Handler("generate", u, <<>>, "start"),
                         NO_PERMISSION)
    /\ UNCHANGED <<clock, LOG_CHANNEL_ID, mem, tasks, db, hist>>

\* ------------------------------------------------------------ task model
\* an asyncio task; requests, photos, notices and failed are history: the
\* generation requests made, the images and failure notices handed to the
\* transport, and the number of the request that failed (0: none so far)
NewTask(kind, u) ==
    [kind |-> kind, user |-> u, pc |-> "start", i |-> 0,
     must_cancel |-> FALSE, cancelled |-> FALSE,
     requests |-> 0, photos |-> 0, notices |-> 0, failed |-> 0]

\* task.done()
done(t) == tasks[t].pc = "done"

\* the exception caught in the task and the work resumed
CancelledError_swallowed(T) == [T EXCEPT !.must_cancel = FALSE]

\* CancelledError thrown into the task at the await it is suspended on (or
\* before its first step): no handler catches it and the task ends
CancelledError(T) == [T EXCEPT !.pc = "done", !.cancelled = TRUE]

\* handlers that have passed their checks and will call create_task
Spawning == {h \in Handlers : handlers[h].pc \in {"found", "spawn"}}
CanSpawn == Len(tasks) + Cardinality(Spawning) < MaxTasks

\* the task created and its handle dropped
Spawn_unregistered(h, kind) ==
    /\ tasks' = Append(tasks, NewTask(kind, handlers[h].user))
    /\ UNCHANGED user_tasks
    /\ handlers' = [handlers EXCEPT ![h] = Idle]
    /\ out' = NoMsg

\* task = asyncio.create_task(...); user_tasks[user_id] = task
Spawn(h, kind) ==
    /\ tasks' = Append(tasks, NewTask(kind, handlers[h].user))
    /\ user_tasks' = Put(user_tasks, handlers[h].user, Len(tasks) + 1)
    /\ handlers' = [handlers EXCEPT ![h] = Idle]
    /\ out' = NoMsg

\* -------------------------------------------------------------------- /ai
\* `<=` in place of `<`
rate_limited_le(u, current_time) ==
    u \in DOMAIN last_ai_use /\ current_time - last_ai_use[u] <= Cooldown

rate_limited(u, current_time) ==
    u \in DOMAIN last_ai_use /\ current_time - last_ai_use[u] < Cooldown

\* the date recorded before the cooldown is looked at
ai_command_stamp_first(u, args) ==
    /\ Free # {}
    /\ CanSpawn
    /\ last_ai_use' = Put(last_ai_use, u, clock)
    /\ LET h == NewSlot
           rec == Handler("ai", u, args, "start")
       IN IF rate_limited(u, clock)
          THEN ReplyThenLog(h, rec, WAIT)
          ELSE IF Truthy(args)
               THEN /\ handlers' = [handlers EXCEPT ![h] =
                          [rec EXCEPT !.pc = "spawn", !.resp = GENERATING]]
                    /\ out' = Msg("reply", u, GENERATING)
               ELSE ReplyThenLog(h, rec, NEED_PROMPT)
    /\ UNCHANGED <<clock, LOG_CHANNEL_ID, user_images, user_tasks, tasks, db,
                   hist>>

ai_command(u, args) ==
    /\ Free # {}
    /\ CanSpawn
    /\ LET h == NewSlot
           rec == Handler("ai", u, args, "start")
       IN IF rate_limited(u, clock)
          THEN /\ ReplyThenLog(h, rec, WAIT)
               /\ UNCHANGED last_ai_use
          ELSE /\ last_ai_use' = Put(last_ai_use, u, clock)
               /\ IF Truthy(args)
                  THEN /\ handlers' = [handlers EXCEPT ![h] =
                             [rec EXCEPT !.pc = "spawn", !.resp = GENERATING]]
                       /\ out' = Msg("reply", u, GENERATING)
                  ELSE ReplyThenLog(h, rec, NEED_PROMPT)
    /\ UNCHANGED <<clock, LOG_CHANNEL_ID, user_images, user_tasks, tasks, db,
                   hist>>

\* resumed after the 'Generating image...' reply
ai_spawn(h) ==
    /\ handlers[h].cmd = "ai" /\ handlers[h].pc = "spawn"
    /\ Spawn(h, "ai")
    /\ UNCHANGED <<clock, LOG_CHANNEL_ID, last_ai_use, user_images, db, hist>>

\* generate_image: a blocking call that returns a url or None
generate_image_task(t) ==
    /\ t \in 1..Len(tasks)
    /\ tasks[t].kind = "ai" /\ ~done(t)
    /\ LET T == tasks[t] IN
       IF T.must_cancel
       THEN /\ tasks' = [tasks EXCEPT ![t] = CancelledError(T)]
            /\ out' = NoMsg
            /\ UNCHANGED user_images
       ELSE CASE T.pc = "start" ->
                 /\ \E image_url \in {"url", "None"} :
                       IF image_url # "None"
                       THEN /\ tasks' = [tasks EXCEPT ![t].pc = "photo",
                                           ![t].requests = @ + 1,
                                           ![t].photos = @ + 1]
                            /\ out' = Msg("photo", T.user, "url")
                       ELSE /\ tasks' = [tasks EXCEPT ![t].pc = "notice",
                                           ![t].requests = @ + 1,
                                           ![t].failed = T.requests + 1,
                                           ![t].notices = @ + 1]
                            /\ out' = Msg("notice", T.user, "error")
                 /\ UNCHANGED user_images
              [] T.pc = "photo" ->
                 IF LOG_CHANNEL_ID # ""
                 THEN /\ tasks' = [tasks EXCEPT ![t].pc = "logged"]
                      /\ out' = Msg("log", T.user, "url")
                      /\ UNCHANGED user_images
                 ELSE /\ tasks' = [tasks EXCEPT ![t].pc = "done"]
                      /\ user_images' = Put(user_images, T.user, "url")
                      /\ out' = NoMsg
              [] T.pc = "logged" ->
                 /\ tasks' = [tasks EXCEPT ![t].pc = "done"]
                 /\ user_images' = Put(user_images, T.user, "url")
                 /\ out' = NoMsg
              [] T.pc = "notice" ->
                 /\ IF LOG_CHANNEL_ID # ""
                    THEN /\ tasks' = [tasks EXCEPT ![t].pc = "notice_logged"]
                         /\ out' = Msg("log", T.user, "error")
                    ELSE /\ tasks' = [tasks EXCEPT ![t].pc = "done"]
                         /\ out' = NoMsg
                 /\ UNCHANGED user_images
              [] T.pc = "notice_logged" ->
                 /\ tasks' = [tasks EXCEPT ![t].pc = "done"]
                 /\ out' = NoMsg
                 /\ UNCHANGED user_images
    /\ UNCHANGED <<clock, LOG_CHANNEL_ID, last_ai_use, user_tasks, db,
                   handlers, hist>>

\* ----------------------------------------------------------------- /proai
find_one(coll, k) == IF k \in DOMAIN coll THEN coll[k] ELSE "None"

\* the plan of the record left unchecked
has_subscription(subscription) == subscription # "None"

\* subscription and subscription.get('plan') == 'professional'
is_professional(subscription) == subscription = "professional"

proai_command(u, args) ==
    /\ Free # {}
    /\ CanSpawn
    /\ handlers' = [handlers EXCEPT ![NewSlot] =
          [Handler("proai", u, args, "found") EXCEPT
              !.subscription = find_one(subscriptions_collection, u)]]
    /\ out' = NoMsg
    /\ UNCHANGED <<clock, LOG_CHANNEL_ID, mem, tasks, db, hist>>

\* resumed with the result of find_one
proai_found(h) ==
    /\ handlers[h].cmd = "proai" /\ handlers[h].pc = "found"
    /\ IF is_professional(handlers[h].subscription)
       THEN IF Truthy(handlers[h].args)
            THEN /\ handlers' = [handlers EXCEPT ![h].pc = "spawn",
                                                 ![h].resp = GENERATING]
                 /\ out' = Msg("reply", handlers[h].user, GENERATING)
            ELSE ReplyThenLog(h, handlers[h], NEED_PROMPT)
       ELSE ReplyThenLog(h, handlers[h], NEED_REDEEM)
    /\ UNCHANGED <<clock, LOG_CHANNEL_ID, mem, tasks, db, hist>>

\* resumed after the 'Generating images...' reply
proai_spawn(h) ==
    /\ handlers[h].cmd = "proai" /\ handlers[h].pc = "spawn"
    /\ Spawn(h, "proai")
    /\ UNCHANGED <<clock, LOG_CHANNEL_ID, last_ai_use, user_images, db, hist>>

\* the loop without its break
AfterNotice_continue(T) == [T EXCEPT !.pc = "sleep", !.i = @ + 1]

\* where the loop goes after the failure notice and its log: break
AfterNotice(T) == [T EXCEPT !.pc = "done"]

\* the pause that leaves the loop where it was
Sleep_same_turn(T) == [T EXCEPT !.pc = "sleep"]

\* the end of an iteration: await asyncio.sleep(5)
Sleep(T) == [T EXCEPT !.pc = "sleep", !.i = @ + 1]

generate_proai_task(t) ==
    /\ t \in 1..Len(tasks)
    /\ tasks[t].kind = "proai" /\ ~done(t)
    /\ LET T == tasks[t] IN
       IF T.must_cancel
       THEN /\ tasks' = [tasks EXCEPT ![t] = CancelledError(T)]
            /\ out' = NoMsg
       ELSE CASE T.pc \in {"start", "sleep"} ->
                 IF T.i = ProSteps
                 THEN /\ tasks' = [tasks EXCEPT ![t].pc = "done"]
                      /\ out' = NoMsg
                 ELSE \E image_url \in {"url", "None"} :
                       IF image_url # "None"
                       THEN /\ tasks' = [tasks EXCEPT ![t].pc = "photo",
                                           ![t].requests = @ + 1,
                                           ![t].photos = @ + 1]
                            /\ out' = Msg("photo", T.user, "url")
                       ELSE /\ tasks' = [tasks EXCEPT ![t].pc = "notice",
                                           ![t].requests = @ + 1,
                                           ![t].failed = T.requests + 1,
                                           ![t].notices = @ + 1]
                            /\ out' = Msg("notice", T.user, "error")
              [] T.pc = "photo" ->
                 IF LOG_CHANNEL_ID # ""
                 THEN /\ tasks' = [tasks EXCEPT ![t].pc = "logged"]
                      /\ out' = Msg("log", T.user, "url")
                 ELSE /\ tasks' = [tasks EXCEPT ![t] = Sleep(T)]
                      /\ out' = NoMsg
              [] T.pc = "logged" ->
                 /\ tasks' = [tasks EXCEPT ![t] = Sleep(T)]
                 /\ out' = NoMsg
              [] T.pc = "notice" ->
                 IF LOG_CHANNEL_ID # ""
                 THEN /\ tasks' = [tasks EXCEPT ![t].pc = "notice_logged"]
                      /\ out' = Msg("log", T.user, "error")
                 ELSE /\ tasks' = [tasks EXCEPT ![t] = AfterNotice(T)]
                      /\ out' = NoMsg
              [] T.pc = "notice_logged" ->
                 /\ tasks' = [tasks EXCEPT ![t] = AfterNotice(T)]
                 /\ out' = NoMsg
    /\ UNCHANGED <<clock, LOG_CHANNEL_ID, mem, db, handlers, hist>>

\* ------------------------------------------------- /cancelai, /cancelproai
CANCELED_AI == "Your /ai command has been canceled."
NO_ACTIVE_AI == "You do not have any active /ai command."
CANCELED_PROAI == "Your /proai command has been canceled."
NO_ACTIVE_PROAI == "You do not have any active /proai command."

\* every unfinished task of the user cancelled, not only the registered one
cancel_all_of_user(t) ==
    [s \in DOMAIN tasks |->
        IF tasks[s].user = tasks[t].user /\ ~done(s)
        THEN [tasks[s] EXCEPT !.must_cancel = TRUE]
        ELSE tasks[s]]

\* the cancellation that is reported and not requested
cancel_nothing(t) == tasks

\* task.cancel(): CancelledError is thrown into the task when it next runs
cancel(t) == [tasks EXCEPT ![t].must_cancel = TRUE]

\* /cancelai that looks for a task made by /ai
cancelai_command_own_kind(u) ==
    /\ IF /\ u \in DOMAIN user_tasks /\ ~done(user_tasks[u])
          /\ tasks[user_tasks[u]].kind = "ai"
       THEN /\ tasks' = cancel(user_tasks[u])
            /\ out' = Msg("reply", u, CANCELED_AI)
       ELSE /\ out' = Msg("reply", u, NO_ACTIVE_AI)
            /\ UNCHANGED tasks
    /\ UNCHANGED <<clock, LOG_CHANNEL_ID, mem, db, handlers, hist>>

cancelai_command(u) ==
    /\ IF u \in DOMAIN user_tasks /\ ~done(user_tasks[u])
       THEN /\ tasks' = cancel(user_tasks[u])
            /\ out' = Msg("reply", u, CANCELED_AI)
       ELSE /\ out' = Msg("reply", u, NO_ACTIVE_AI)
            /\ UNCHANGED tasks
    /\ UNCHANGED <<clock, LOG_CHANNEL_ID, mem, db, handlers, hist>>

cancelproai_command(u) ==
    /\ IF u \in DOMAIN user_tasks /\ ~done(user_tasks[u])
       THEN /\ tasks' = cancel(user_tasks[u])
            /\ out' = Msg("reply", u, CANCELED_PROAI)
       ELSE /\ out' = Msg("reply", u, NO_ACTIVE_PROAI)
            /\ UNCHANGED tasks
    /\ UNCHANGED <<clock, LOG_CHANNEL_ID, mem, db, handlers, hist>>

\* time passes between two messages
Tick(d) ==
    /\ clock + d <= MaxTime
    /\ clock' = clock + d
    /\ out' = NoMsg
    /\ UNCHANGED <<LOG_CHANNEL_ID, mem, tasks, db, handlers, hist>>

\* ---------------------------------------------------------- /setlogchannel
LOG_SET == "Log channel set to"

setlogchannel_command(u, args) ==
    /\ Free # {}
    /\ LET h == NewSlot
           rec == Handler("setlogchannel", u, args, "start")
       IN IF is_owner(u)
          THEN IF Len(args) = 1
               THEN /\ LOG_CHANNEL_ID' = args[1]
                    /\ ReplyThenLog(h, rec, LOG_SET)
               ELSE /\ ReplyThenLog(h, rec, USAGE)
                    /\ UNCHANGED LOG_CHANNEL_ID
          ELSE /\ ReplyThenLog(h, rec, NO_PERMISSION)
               /\ UNCHANGED LOG_CHANNEL_ID
    /\ UNCHANGED <<clock, mem, tasks, db, hist>>

\* ----------------------------------------------------------------- /start
START == "Hi! Send me a command"

start_command(u) ==
    /\ Free # {}
    /\ handlers' = [handlers EXCEPT ![NewSlot] =
          [Handler("start", u, <<>>, "replied") EXCEPT !.resp = START]]
    /\ out' = Msg("reply", u, START)
    /\ UNCHANGED <<clock, LOG_CHANNEL_ID, mem, tasks, db, hist>>

\* log_message, and when it sends nothing the upsert right away
start_replied(h) ==
    /\ handlers[h].cmd = "start" /\ handlers[h].pc = "replied"
    /\ IF LOG_CHANNEL_ID # ""
       THEN /\ out' = Msg("log", handlers[h].user, START)
            /\ handlers' = [handlers EXCEPT ![h].pc = "logged"]
            /\ UNCHANGED users_collection
       ELSE /\ out' = NoMsg
            /\ users_collection' = users_collection \cup {handlers[h].user}
            /\ handlers' = [handlers EXCEPT ![h] = Idle]
    /\ UNCHANGED <<clock, LOG_CHANNEL_ID, mem, tasks, groups_collection,
                   subscriptions_collection, gift_codes_collection, hist>>

start_logged(h) ==
    /\ handlers[h].cmd = "start" /\ handlers[h].pc = "logged"
    /\ out' = NoMsg
    /\ users_collection' = users_collection \cup {handlers[h].user}
    /\ handlers' = [handlers EXCEPT ![h] = Idle]
    /\ UNCHANGED <<clock, LOG_CHANNEL_ID, mem, tasks, groups_collection,
                   subscriptions_collection, gift_codes_collection, hist>>

\* ------------------------------------------------------- new_chat_members
new_chat_members_handler(chat, type) ==
    /\ groups_collection' = IF type \in {"group", "supergroup"}
                            THEN groups_collection \cup {chat}
                            ELSE groups_collection
    /\ out' = NoMsg
    /\ UNCHANGED <<clock, LOG_CHANNEL_ID, mem, tasks, users_collection,
                   subscriptions_collection, gift_codes_collection, handlers,
                   hist>>

\* ----------------------------------------------------------------- /users
\* the documents come in the order of their ids
First(S) == CHOOSE x \in S : \A y \in S : x <= y

users_command(u) ==
    /\ Free # {}
    /\ LET h == NewSlot
           rec == Handler("users", u, <<>>, "start")
       IN IF is_owner(u)
          THEN /\ handlers' = [handlers EXCEPT ![h] =
                     [rec EXCEPT !.pc = "loop", !.todo = users_collection]]
               /\ out' = NoMsg
          ELSE ReplyThenLog(h, rec, NOT_CAPABLE)
    /\ UNCHANGED <<clock, LOG_CHANNEL_ID, mem, tasks, db, hist>>

\* the next turn of `for user_data in users`: reply with the record, or leave
UsersTurn(h) ==
    IF handlers[h].todo = {}
    THEN /\ handlers' = [handlers EXCEPT ![h] = Idle]
         /\ out' = NoMsg
    ELSE /\ handlers' = [handlers EXCEPT
               ![h].todo = @ \ {First(handlers[h].todo)},
               ![h].pc = "replied"]
         /\ out' = Msg("user_info", handlers[h].user, "User ID")

users_loop(h) ==
    /\ handlers[h].cmd = "users" /\ handlers[h].pc = "loop"
    /\ UsersTurn(h)
    /\ UNCHANGED <<clock, LOG_CHANNEL_ID, mem, tasks, db, hist>>

\* log_message, and when it sends nothing the next turn right away
users_replied(h) ==
    /\ handlers[h].cmd = "users" /\ handlers[h].pc = "replied"
    /\ IF LOG_CHANNEL_ID # ""
       THEN /\ out' = Msg("log", handlers[h].user, "User ID")
            /\ handlers' = [handlers EXCEPT ![h].pc = "loop"]
       ELSE UsersTurn(h)
    /\ UNCHANGED <<clock, LOG_CHANNEL_ID, mem, tasks, db, hist>>

\* ------------------------------------------------------------- /broadcast
BROADCAST_SENT == "Broadcast message sent."

broadcast_command(u, args) ==
    /\ Free # {}
    /\ LET h == NewSlot
           rec == Handler("broadcast", u, args, "start")
       IN IF is_owner(u)
          THEN IF Truthy(args)
               THEN /\ handlers' = [handlers EXCEPT ![h] =
                          [rec EXCEPT !.pc = "users", !.todo = users_collection]]
                    /\ out' = NoMsg
               ELSE ReplyThenLog(h, rec, USAGE)
          ELSE ReplyThenLog(h, rec, NOT_CAPABLE)
    /\ UNCHANGED <<clock, LOG_CHANNEL_ID, mem, tasks, db, hist>>

\* bot.send_message outside any try: the error ends the handler
Deliver_uncaught(h) ==
    \E sent \in BOOLEAN :
        IF sent
        THEN /\ out' = Msg("broadcast", First(handlers[h].todo), "message")
             /\ handlers' = [handlers EXCEPT
                    ![h].todo = @ \ {First(handlers[h].todo)}]
        ELSE /\ out' = Msg("send_error", First(handlers[h].todo), "message")
             /\ handlers' = [handlers EXCEPT ![h] = Idle]

\* bot.send_message inside try/except: delivered, or the error is logged
Deliver(h) ==
    \E sent \in BOOLEAN :
        /\ out' = Msg(IF sent THEN "broadcast" ELSE "send_error",
                      First(handlers[h].todo), "message")
        /\ handlers' = [handlers EXCEPT
               ![h].todo = @ \ {First(handlers[h].todo)}]

broadcast_users(h) ==
    /\ handlers[h].cmd = "broadcast" /\ handlers[h].pc = "users"
    /\ IF handlers[h].todo # {}
       THEN Deliver(h)
       ELSE /\ handlers' = [handlers EXCEPT ![h].pc = "groups",
                                            ![h].todo = groups_collection]
            /\ out' = NoMsg
    /\ UNCHANGED <<clock, LOG_CHANNEL_ID, mem, tasks, db, hist>>

broadcast_groups(h) ==
    /\ handlers[h].cmd = "broadcast" /\ handlers[h].pc = "groups"
    /\ IF handlers[h].todo # {}
       THEN Deliver(h)
       ELSE ReplyThenLog(h, handlers[h], BROADCAST_SENT)
    /\ UNCHANGED <<clock, LOG_CHANNEL_ID, mem, tasks, db, hist>>

\* --------------------------------------------------------- specifications
InitMem ==
    /\ clock = 0
    /\ last_ai_use = EmptyDict
    /\ user_images = EmptyDict
    /\ user_tasks = EmptyDict
    /\ tasks = <<>>
    /\ handlers = [h \in Handlers |-> Idle]
    /\ out = NoMsg

\* the collections outlive the process: any content is a start state
InitGift ==
    /\ InitMem
    /\ LOG_CHANNEL_ID \in {"", "ABC123"}
    /\ users_collection = {}
    /\ groups_collection = {}
    /\ \E S \in SUBSET Users :
          subscriptions_collection \in [S -> {"free", "professional"}]
    /\ gift_codes_collection \in SUBSET Codes
    /\ issued = [c \in Codes |-> IF c \in gift_codes_collection THEN 1 ELSE 0]
    /\ redeemed = [c \in Codes |-> 0]
    /\ consumed = [u \in Users |-> 0]

\* /redeem and /generate, any number of them at once
NextRedeem ==
    \/ \E u \in Users, args \in Texts : redeem_command(u, args)
    \/ \E h \in Handlers : redeem_deleted(h)
    \/ \E h \in Handlers : redeem_upserted(h)
    \/ \E u \in Users : generate_command(u)
    \/ \E h \in Handlers : log_message(h)

SpecRedeem == InitGift /\ [][NextRedeem]_vars

\* /proai next to the redemptions that make subscribers; the tasks it
\* creates are left waiting
NextGate ==
    \/ \E u \in Users : redeem_command(u, <<"ABC123">>)
    \/ \E h \in Handlers : redeem_deleted(h)
    \/ \E h \in Handlers : redeem_upserted(h)
    \/ \E u \in Users, args \in Prompts : proai_command(u, args)
    \/ \E h \in Handlers : proai_found(h)
    \/ \E h \in Handlers : proai_spawn(h)
    \/ \E h \in Handlers : log_message(h)

SpecGate == InitGift /\ [][NextGate]_vars

\* /ai and its cooldown, with the clock running; the tasks it creates are
\* left waiting
InitRate ==
    /\ InitMem
    /\ LOG_CHANNEL_ID \in {"", "ABC123"}
    /\ users_collection = {}
    /\ groups_collection = {}
    /\ subscriptions_collection = EmptyDict
    /\ gift_codes_collection = {}
    /\ issued = [c \in Codes |-> 0]
    /\ redeemed = [c \in Codes |-> 0]
    /\ consumed = [u \in Users |-> 0]

NextRate ==
    \/ \E u \in Users, args \in Prompts : ai_command(u, args)
    \/ \E h \in Handlers : ai_spawn(h)
    \/ \E h \in Handlers : log_message(h)
    \/ \E d \in {1, Cooldown - 1} : Tick(d)

SpecRate == InitRate /\ [][NextRate]_vars

\* the background tasks and their cancellation.  Every user has redeemed a
\* code before; the handlers run one at a time, one user sends /ai and
\* /proai and one /proai is sent, every user sends the cancel commands, and
\* the tasks interleave freely with the handlers and with each other
InitTask ==
    /\ InitMem
    /\ LOG_CHANNEL_ID \in {"", "ABC123"}
    /\ users_collection = {}
    /\ groups_collection = {}
    /\ subscriptions_collection = [u \in Users |-> "professional"]
    /\ gift_codes_collection = {}
    /\ issued = [c \in Codes |-> 0]
    /\ redeemed = [c \in Codes |-> 0]
    /\ consumed = [u \in Users |-> 0]

Quiet == Free = Handlers
NoProaiTask == \A t \in 1..Len(tasks) : tasks[t].kind # "proai"
OnlyTasksOf(u) ==
    /\ \A t \in 1..Len(tasks) : tasks[t].user = u
    /\ DOMAIN last_ai_use \subseteq {u}

NextTask ==
    \/ \E u \in Users : Quiet /\ OnlyTasksOf(u) /\ ai_command(u, <<"ABC123">>)
    \/ \E h \in Handlers : ai_spawn(h)
    \/ \E u \in Users :
          Quiet /\ OnlyTasksOf(u) /\ NoProaiTask /\ proai_command(u, <<"ABC123">>)
    \/ \E h \in Handlers : proai_found(h)
    \/ \E h \in Handlers : proai_spawn(h)
    \/ \E t \in 1..MaxTasks : generate_image_task(t)
    \/ \E t \in 1..MaxTasks : generate_proai_task(t)
    \/ \E u \in Users : cancelai_command(u)
    \/ \E u \in Users : cancelproai_command(u)
    \/ \E h \in Handlers : log_message(h)

SpecTask == InitTask /\ [][NextTask]_vars

\* the owner's commands and the collections they read
InitOwner ==
    /\ InitMem
    /\ LOG_CHANNEL_ID \in {"", "ABC123"}
    /\ users_collection = {}
    /\ groups_collection = {}
    /\ subscriptions_collection = EmptyDict
    /\ gift_codes_collection = Codes
    /\ issued = [c \in Codes |-> IF c \in gift_codes_collection THEN 1 ELSE 0]
    /\ redeemed = [c \in Codes |-> 0]
    /\ consumed = [u \in Users |-> 0]

NextOwner ==
    \/ \E u \in Users, args \in Texts : setlogchannel_command(u, args)
    \/ \E u \in Users : generate_command(u)
    \/ \E u \in Users : start_command(u)
    \/ \E h \in Handlers : start_replied(h)
    \/ \E h \in Handlers : start_logged(h)
    \/ \E g \in Groups, type \in {"group", "private"} :
          new_chat_members_handler(g, type)
    \/ \E u \in Users : users_command(u)
    \/ \E h \in Handlers : users_loop(h)
    \/ \E h \in Handlers : users_replied(h)
    \/ \E u \in Users, args \in Prompts : broadcast_command(u, args)
    \/ \E h \in Handlers : broadcast_users(h)
    \/ \E h \in Handlers : broadcast_groups(h)
    \/ \E h \in Handlers : log_message(h)

SpecOwner == InitOwner /\ [][NextOwner]_vars

\* how subscriptions come about: two codes in the store, no subscriber yet
\* (some users hold a record of another plan), /redeem by every user of
\* every code and /proai, which reads the plan
PlanCodes == Codes \cup {"XYZ789"}

InitPlan ==
    /\ InitMem
    /\ LOG_CHANNEL_ID = ""
    /\ users_collection = {}
    /\ groups_collection = {}
    /\ \E S \in SUBSET Users : subscriptions_collection = [u \in S |-> "free"]
    /\ gift_codes_collection = PlanCodes
    /\ issued = [c \in PlanCodes |-> 1]
    /\ redeemed = [c \in PlanCodes |-> 0]
    /\ consumed = [u \in Users |-> 0]

NextPlan ==
    \/ \E u \in Users, c \in PlanCodes : redeem_command(u, <<c>>)
    \/ \E h \in Handlers : redeem_deleted(h)
    \/ \E h \in Handlers : redeem_upserted(h)
    \/ \E u \in Users : proai_command(u, <<>>)
    \/ \E h \in Handlers : proai_found(h)
    \/ \E h \in Handlers : log_message(h)

SpecPlan == InitPlan /\ [][NextPlan]_vars

\* the event loop resumes a handler whose find_one_and_delete has returned
SpecPlanFair ==
    SpecPlan /\ \A h \in Handlers : WF_vars(redeem_deleted(h))

\* two users side by side: each sends /ai, /redeem and /cancelai,
\* one /proai is sent, the handlers run one at a time and the tasks
\* interleave freely; the /proai task is followed through its first turns
Early(t) == t \in 1..Len(tasks) /\ tasks[t].i < MaxTurns

InitIso ==
    /\ InitMem
    /\ LOG_CHANNEL_ID = ""
    /\ users_collection = {}
    /\ groups_collection = {}
    /\ subscriptions_collection = [u \in {2} |-> "professional"]
    /\ gift_codes_collection = Codes
    /\ issued = [c \in Codes |-> 1]
    /\ redeemed = [c \in Codes |-> 0]
    /\ consumed = [u \in Users |-> 0]

NextIso ==
    \/ \E u \in Users : Quiet /\ ai_command(u, <<"ABC123">>)
    \/ \E h \in Handlers : ai_spawn(h)
    \/ \E u \in Users : Quiet /\ NoProaiTask /\ proai_command(u, <<"ABC123">>)
    \/ \E h \in Handlers : proai_found(h)
    \/ \E h \in Handlers : proai_spawn(h)
    \/ \E u \in Users : Quiet /\ redeem_command(u, <<"ABC123">>)
    \/ \E h \in Handlers : redeem_deleted(h)
    \/ \E h \in Handlers : redeem_upserted(h)
    \/ \E t \in 1..MaxTasks : generate_image_task(t)
    \/ \E t \in 1..MaxTasks : Early(t) /\ generate_proai_task(t)
    \/ \E u \in Users : cancelai_command(u)
    \/ \E h \in Handlers : log_message(h)

SpecIso == InitIso /\ [][NextIso]_vars

\* ------------------------------------------------------------------ claims
\* handler slot h took the step / a handler of command c was dispatched
\* into slot h by the step
Stepped(h) == handlers'[h] # handlers[h]
Dispatched(h, c) == handlers[h].cmd = "idle" /\ handlers'[h].cmd = c
\* the plan of u's subscription record, "None" without a record
Plan(coll, u) == IF u \in DOMAIN coll THEN coll[u] ELSE "None"
OthersKeepPlan(u) ==
    \A v \in Users \ {u} :
        Plan(subscriptions_collection', v) = Plan(subscriptions_collection, v)

\* the /redeem invocations of code c that were handed its document and have
\* not replied yet
Winners(c) ==
    {h \in Handlers : /\ handlers[h].cmd = "redeem"
                      /\ handlers[h].args = <<c>>
                      /\ handlers[h].gift_code
                      /\ handlers[h].pc \in {"deleted", "upserted"}}

\* C1: of the /redeem invocations of one code, however interleaved, at most
\* one per issuance of the code is handed the document and gets the success
\* reply; every other one-word invocation gets the invalid-code reply; once
\* one has succeeded the code is not in the store.
C1_RedeemAtMostOnce ==
    /\ \A c \in Codes :
          /\ Cardinality(Winners(c)) + redeemed[c] <= issued[c]
          /\ Cardinality(Winners(c)) + redeemed[c] >= 1
                => c \notin gift_codes_collection
    /\ \A h \in Handlers :
          handlers[h].cmd = "redeem" /\ handlers[h].pc = "log"
             /\ Len(handlers[h].args) = 1
          => /\ handlers[h].resp \in {REDEEM_OK, REDEEM_INVALID}
             /\ handlers[h].resp = REDEEM_OK <=> handlers[h].gift_code

\* two callers redeem the same code at once: one holds the document, the
\* other has been told the code is invalid
C1_Witness ==
    \E h, g \in Handlers :
        /\ handlers[h].cmd = "redeem" /\ handlers[g].cmd = "redeem"
        /\ handlers[h].user # handlers[g].user
        /\ handlers[h].args = <<"ABC123">> /\ handlers[g].args = <<"ABC123">>
        /\ handlers[h].gift_code /\ handlers[h].pc = "upserted"
        /\ handlers[g].resp = REDEEM_INVALID /\ handlers[g].pc = "log"

\* a /proai handler about to create its task passed the check
C6_Inv ==
    \A h \in Handlers :
        handlers[h].cmd = "proai" /\ handlers[h].pc = "spawn"
        => handlers[h].subscription = "professional" /\ Truthy(handlers[h].args)

\* the steps of a /proai handler, and the only way a task is created
C6_Step ==
    /\ \A h \in Handlers :
          /\ Dispatched(h, "proai") =>
                handlers'[h].subscription =
                    Plan(subscriptions_collection, handlers'[h].user)
          /\ handlers[h].cmd = "proai" /\ handlers[h].pc = "found" /\ Stepped(h)
             => /\ handlers'[h].pc = "spawn"
                   <=> /\ handlers[h].subscription = "professional"
                       /\ Truthy(handlers[h].args)
                /\ handlers[h].subscription = "None"
                   => /\ out' = Msg("reply", handlers[h].user, NEED_REDEEM)
                      /\ handlers'[h].pc = "log"
                /\ UNCHANGED <<tasks, user_tasks>>
    /\ tasks' # tasks =>
          \E h \in Handlers :
              /\ handlers[h].pc = "spawn" /\ handlers'[h] = Idle
              /\ tasks' = Append(tasks, NewTask(handlers[h].cmd, handlers[h].user))
              /\ user_tasks' = Put(user_tasks, handlers[h].user, Len(tasks'))

\* C6: /proai reads the caller's subscription record when it is dispatched;
\* it goes on to start a task iff that record has plan 'professional' and a
\* prompt is given; without a record the reply is the need-to-redeem message
\* and neither a task nor a handle is created; only a handler that passed
\* the check creates a task.
C6_ProaiGate == []C6_Inv /\ [][C6_Step]_vars

\* a subscriber's /proai has started a task while a caller without a record
\* has been refused
C6_Witness ==
    /\ \E t \in 1..Len(tasks) : tasks[t].kind = "proai"
    /\ \E h \in Handlers :
          /\ handlers[h].cmd = "proai" /\ handlers[h].pc = "log"
          /\ handlers[h].subscription = "None"
          /\ handlers[h].resp = NEED_REDEEM
          /\ handlers[h].user \notin DOMAIN user_tasks

\* after the upsert of a successful /redeem
C7_Inv ==
    \A h \in Handlers :
        handlers[h].cmd = "redeem" /\ handlers[h].gift_code
           /\ handlers[h].pc \in {"upserted", "log"}
        => /\ Plan(subscriptions_collection, handlers[h].user) = "professional"
           /\ handlers[h].args[1] \notin gift_codes_collection

\* the steps of a /redeem that was handed the document
C7_Step ==
    \A h \in Handlers :
        /\ Dispatched(h, "redeem") /\ Len(handlers'[h].args) = 1
              /\ handlers'[h].args[1] \in gift_codes_collection
           => /\ handlers'[h].gift_code
              /\ handlers'[h].args[1] \notin gift_codes_collection'
              /\ UNCHANGED subscriptions_collection
        /\ handlers[h].cmd = "redeem" /\ handlers[h].gift_code /\ Stepped(h)
           => /\ OthersKeepPlan(handlers[h].user)
              /\ handlers[h].pc = "deleted" =>
                    Plan(subscriptions_collection', handlers[h].user)
                        = "professional"
              /\ handlers[h].pc = "upserted" =>
                    out' = Msg("reply", handlers[h].user, REDEEM_OK)

\* C7: /redeem C by U with C in the store: the document is removed by the
\* dispatch step, U's plan is then set to 'professional', the reply is the
\* success message, and from the upsert to the end of the handler U's plan
\* is 'professional' and C is absent; no step of the handler changes another
\* user's subscription.
C7_RedeemGrantsPlan == []C7_Inv /\ [][C7_Step]_vars

\* a user without a record has redeemed the code and been told so, while
\* another user holds a 'free' record
C7_Witness ==
    \E h \in Handlers :
        /\ handlers[h].cmd = "redeem" /\ handlers[h].pc = "log"
        /\ handlers[h].resp = REDEEM_OK
        /\ \E v \in Users \ {handlers[h].user} :
              Plan(subscriptions_collection, v) = "free"

\* the steps of a /redeem that was not handed a document
C8_Step ==
    \A h \in Handlers :
        /\ Dispatched(h, "redeem")
           /\ \/ Len(handlers'[h].args) # 1
              \/ handlers'[h].args[1] \notin gift_codes_collection
           => /\ ~handlers'[h].gift_code
              /\ UNCHANGED <<gift_codes_collection, subscriptions_collection>>
              /\ Len(handlers'[h].args) # 1 =>
                    out' = Msg("reply", handlers'[h].user, USAGE)
        /\ handlers[h].cmd = "redeem" /\ ~handlers[h].gift_code /\ Stepped(h)
           => /\ UNCHANGED <<gift_codes_collection, subscriptions_collection>>
              /\ handlers[h].pc = "deleted" =>
                    out' = Msg("reply", handlers[h].user, REDEEM_INVALID)

\* C8: a /redeem with a code that is not in the store, or with a number of
\* words other than one, is answered with the invalid-code or the usage
\* message, and no step of it changes the gift codes or any subscription.
C8_FailedRedeemNoMutation == [][C8_Step]_vars

\* a second /redeem of a consumed code has been answered: invalid
C8_Witness ==
    \E h \in Handlers :
        /\ handlers[h].cmd = "redeem" /\ handlers[h].pc = "log"
        /\ handlers[h].resp = REDEEM_INVALID
        /\ handlers[h].args = <<"ABC123">>
        /\ redeemed["ABC123"] = 1

\* C9: every /generate by the owner adds one new gift code to the store and
\* replies with it.
C9_GenerateAddsCode ==
    [][generate_command(BOT_OWNER_ID)
       => /\ gift_codes_collection \subseteq gift_codes_collection'
          /\ gift_codes_collection' # gift_codes_collection
          /\ out'.kind = "reply"]_vars
\* the dispatch of an /ai, and the only way last_ai_use changes
C2_Step ==
    /\ \A h \in Handlers :
          Dispatched(h, "ai") =>
             LET u == handlers'[h].user
                 allowed == \/ u \notin DOMAIN last_ai_use
                            \/ clock - last_ai_use[u] >= 5
             IN /\ handlers'[h].resp # WAIT <=> allowed
                /\ handlers'[h].resp = WAIT => out' = Msg("reply", u, WAIT)
                /\ allowed => /\ u \in DOMAIN last_ai_use'
                              /\ last_ai_use'[u] = clock
                /\ ~allowed => UNCHANGED last_ai_use
    /\ last_ai_use' # last_ai_use => \E h \in Handlers : Dispatched(h, "ai")

\* C2: an /ai with message date `now` is let through iff the user has no
\* recorded date or now - last_ai_use[U] >= 5; a refused one gets the
\* 'Please wait for 5 seconds' reply; the recorded date is the date of the
\* user's last accepted /ai, so a second /ai less than 5 seconds after an
\* accepted one is refused and one 5 or more seconds after it is accepted.
C2_Cooldown == [][C2_Step]_vars

\* a user's /ai 4 seconds after the accepted one has been refused, and the
\* same user's /ai 5 seconds after the accepted one has been accepted
C2_Witness ==
    \E h, g \in Handlers :
        /\ handlers[h].cmd = "ai" /\ handlers[g].cmd = "ai"
        /\ handlers[h].user = handlers[g].user
        /\ handlers[h].resp = WAIT
        /\ handlers[g].resp = GENERATING
        /\ last_ai_use[handlers[h].user] = 5
        /\ clock = 5
        /\ \E t \in 1..Len(tasks) : tasks[t].user = handlers[h].user

\* the owner-only commands
Restricted == {"generate", "setlogchannel", "users", "broadcast"}

\* the dispatch of a restricted command sent by a non-owner
C3_Step ==
    \A h \in Handlers :
        /\ handlers'[h].cmd \in Restricted
        /\ handlers'[h].user # BOT_OWNER_ID
        /\ handlers[h].cmd = "idle"
        => /\ UNCHANGED <<gift_codes_collection, LOG_CHANNEL_ID>>
           /\ out'.kind = "reply" /\ out'.to = handlers'[h].user
           /\ out'.text \in {NO_PERMISSION, NOT_CAPABLE}
           /\ handlers'[h].pc = "log" /\ handlers'[h].resp = out'.text

\* the rest of such a handler: the mirror of the refusal
C3_After ==
    \A h \in Handlers :
        /\ handlers[h].cmd \in Restricted
        /\ handlers[h].user # BOT_OWNER_ID
        /\ Stepped(h)
        => /\ UNCHANGED <<gift_codes_collection, LOG_CHANNEL_ID>>
           /\ out'.kind \in {"log", "none"}
           /\ handlers'[h] = Idle

\* C3: no step of a /generate, /setlogchannel, /users or /broadcast sent by
\* someone other than the owner inserts a gift code, changes the log channel,
\* replies a user record or sends a broadcast message: it replies a refusal
\* and mirrors it.
C3_OwnerOnly == [][C3_Step /\ C3_After]_vars

\* a non-owner's /broadcast has been refused while a user and a group are
\* stored, and the log channel is still unset
C3_Witness ==
    \E h \in Handlers :
        /\ handlers[h].cmd = "broadcast" /\ handlers[h].user # BOT_OWNER_ID
        /\ handlers[h].resp = NOT_CAPABLE
        /\ Truthy(handlers[h].args)
        /\ users_collection # {} /\ groups_collection # {}
        /\ LOG_CHANNEL_ID = ""

\* how user_tasks and the cancellation marks change
C4_Step ==
    /\ Len(tasks') > Len(tasks) =>
          /\ Len(tasks') = Len(tasks) + 1
          /\ user_tasks' = Put(user_tasks, tasks'[Len(tasks')].user, Len(tasks'))
    /\ Len(tasks') = Len(tasks) => UNCHANGED user_tasks
    /\ \A t \in 1..Len(tasks) :
          /\ tasks'[t].must_cancel /\ ~tasks[t].must_cancel
             => /\ out'.kind = "reply"
                /\ out'.to = tasks[t].user
                /\ out'.to \in DOMAIN user_tasks
                /\ user_tasks[out'.to] = t
                /\ \A s \in 1..Len(tasks) \ {t} : tasks'[s] = tasks[s]
          /\ tasks'[t].cancelled => tasks[t].must_cancel \/ tasks[t].cancelled

\* C4: a new task of a user becomes the user's registered task even while an
\* earlier one is unfinished; /cancelai and /cancelproai request cancellation
\* of the registered task of the caller and of no other task, so the earlier
\* task is never cancelled and ends on its own.
C4_CancelHitsNewest == [][C4_Step]_vars

\* the user's second task was cancelled and has ended; the first one, still
\* unfinished and never asked to stop, has delivered images since
C4_Witness ==
    \E t1, t2 \in 1..Len(tasks) :
        /\ t1 < t2
        /\ tasks[t1].user = tasks[t2].user
        /\ user_tasks[tasks[t1].user] = t2
        /\ tasks[t2].cancelled
        /\ ~done(t1) /\ ~tasks[t1].must_cancel
        /\ tasks[t1].photos >= 2

\* C5: in a /proai task, after the first generation request that fails no
\* further request is made and no further image is delivered, and exactly
\* one failure notice is sent; without a failed request none is sent.
C5_StopAtFirstFailure ==
    \A t \in 1..Len(tasks) :
        tasks[t].kind = "proai" =>
            /\ tasks[t].failed = 0 =>
                  /\ tasks[t].notices = 0
                  /\ tasks[t].photos = tasks[t].requests
            /\ tasks[t].failed > 0 =>
                  /\ tasks[t].requests = tasks[t].failed
                  /\ tasks[t].photos = tasks[t].failed - 1
                  /\ tasks[t].notices = 1

\* a /proai task whose third request failed has ended after two images and
\* one notice
C5_Witness ==
    \E t \in 1..Len(tasks) :
        /\ tasks[t].kind = "proai" /\ done(t) /\ ~tasks[t].cancelled
        /\ tasks[t].failed = 3 /\ tasks[t].photos = 2 /\ tasks[t].notices = 1

\* the replies for a missing permission, subscription or argument
Refusals == {USAGE, NO_PERMISSION, NOT_CAPABLE, NEED_REDEEM, NEED_PROMPT}

\* C10: a step of a handler that refuses for a missing permission, a missing
\* subscription or a missing argument changes no state, and the refusal is
\* mirrored when a log channel is set.
C10_RefusalChangesNothing ==
    [][\A h \in Handlers :
          /\ Stepped(h) /\ handlers'[h].resp \in Refusals
             => UNCHANGED <<LOG_CHANNEL_ID, mem, tasks, db>>
          /\ Stepped(h) /\ handlers[h].resp \in Refusals /\ handlers[h].pc = "log"
             => /\ UNCHANGED <<LOG_CHANNEL_ID, mem, tasks, db>>
                /\ LOG_CHANNEL_ID # "" =>
                      out' = Msg("log", handlers[h].user, handlers[h].resp)]_vars

\* the turns of an owner's /broadcast with a message
C11_Step ==
    \A h \in Handlers :
        /\ Dispatched(h, "broadcast") /\ handlers'[h].user = BOT_OWNER_ID
              /\ Truthy(handlers'[h].args)
           => /\ handlers'[h].pc = "users"
              /\ handlers'[h].todo = users_collection
        /\ handlers[h].cmd = "broadcast" /\ Stepped(h)
              /\ handlers[h].pc \in {"users", "groups"}
           => IF handlers[h].todo # {}
              THEN /\ out'.kind \in {"broadcast", "send_error"}
                   /\ out'.to = First(handlers[h].todo)
                   /\ handlers'[h] = [handlers[h] EXCEPT
                          !.todo = @ \ {First(handlers[h].todo)}]
              ELSE IF handlers[h].pc = "users"
                   THEN /\ handlers'[h].pc = "groups"
                        /\ handlers'[h].todo = groups_collection
                   ELSE /\ out' = Msg("reply", BOT_OWNER_ID, BROADCAST_SENT)
                        /\ handlers'[h].pc = "log"

\* C11: in an owner's /broadcast with a message every turn of the two loops
\* attempts the next recipient and, delivered or failed, leaves the handler
\* in the loop with the other recipients still to come: every user stored
\* when the users are read and every group stored when the groups are read
\* is attempted, and the reply after the last one is 'Broadcast message
\* sent.'.
C11_BroadcastGoesOn == [][C11_Step]_vars

\* the delivery to the first stored user has failed; the handler is still in
\* its loop with the second user and the group to come
C11_Witness ==
    \E h \in Handlers :
        /\ handlers[h].cmd = "broadcast" /\ handlers[h].pc = "users"
        /\ handlers[h].todo = {2}
        /\ out = Msg("send_error", 1, "message")
        /\ groups_collection = Groups

\* the replies of the two cancel commands
Canceled == {CANCELED_AI, CANCELED_PROAI}
NoActive == {NO_ACTIVE_AI, NO_ACTIVE_PROAI}

\* a step that replies to a cancel command of u
C12_Step ==
    \A u \in Users :
        out'.kind = "reply" /\ out'.to = u /\ out'.text \in Canceled \cup NoActive
        => LET live == u \in DOMAIN user_tasks /\ ~done(user_tasks[u])
           IN /\ out'.text \in Canceled <=> live
              /\ live => /\ tasks'[user_tasks[u]].must_cancel
                         /\ \A t \in 1..Len(tasks) \ {user_tasks[u]} :
                               tasks'[t] = tasks[t]
              /\ ~live => tasks' = tasks
              /\ Len(tasks') = Len(tasks)
              /\ UNCHANGED user_tasks

\* C12: /cancelai and /cancelproai of U reply 'has been canceled' iff
\* user_tasks[U] holds a task that is not done at that moment, and then
\* request the cancellation of that task and of no other; otherwise they
\* reply 'do not have any active' and request nothing.
C12_CancelReport == [][C12_Step]_vars

\* /cancelproai has reported success on a /proai task in the middle of its
\* loop, which now carries the request
C12_Witness ==
    \E u \in Users :
        /\ out = Msg("reply", u, CANCELED_PROAI)
        /\ u \in DOMAIN user_tasks
        /\ tasks[user_tasks[u]].kind = "proai"
        /\ tasks[user_tasks[u]].must_cancel /\ ~done(user_tasks[u])
        /\ tasks[user_tasks[u]].requests = 2

\* C13: a /proai task whose cancellation has been requested makes no further
\* generation request and delivers nothing more: the next time it runs it
\* ends, with the count of its requests as it was at the cancel command.
C13_CancelledStops ==
    [][\A t \in 1..Len(tasks) :
          tasks[t].kind = "proai" /\ tasks[t].must_cancel
          => /\ tasks'[t].requests = tasks[t].requests
             /\ tasks'[t].photos = tasks[t].photos
             /\ tasks'[t].must_cancel
             /\ tasks'[t] # tasks[t] => /\ tasks'[t].pc = "done"
                                        /\ tasks'[t].cancelled
                                        /\ out' = NoMsg]_vars

\* a /proai task cancelled during the pause after its fourth image has ended
\* with four requests made
C13_Witness ==
    \E t \in 1..Len(tasks) :
        /\ tasks[t].kind = "proai" /\ done(t) /\ tasks[t].cancelled
        /\ tasks[t].i = 4 /\ tasks[t].requests = 4 /\ tasks[t].failed = 0
        /\ user_tasks[tasks[t].user] = t

\* the tasks of u, and those that have begun to run and have not ended
TasksOf(u) == {t \in 1..Len(tasks) : tasks[t].user = u}
InFlight(u) == {t \in TasksOf(u) : tasks[t].pc \notin {"start", "done"}}

\* C14: every user has at most one background generation task that has
\* started and not yet finished.
C14_AtMostOneInFlight == \A u \in Users : Cardinality(InFlight(u)) <= 1

\* C14 as amended: every user has at most one registered task, the one the
\* user created last; the tasks created before it are out of the registry
\* whether they have ended or not.
C14_OneRegistered ==
    \A u \in Users :
        /\ u \in DOMAIN user_tasks <=> TasksOf(u) # {}
        /\ u \in DOMAIN user_tasks =>
              /\ user_tasks[u] \in TasksOf(u)
              /\ \A t \in TasksOf(u) : t <= user_tasks[u]

\* two tasks of one user are running; the registry holds the second
C14_Witness ==
    \E u \in Users :
        /\ Cardinality(InFlight(u)) = 2
        /\ user_tasks[u] \in InFlight(u)
        /\ \E t \in InFlight(u) : t < user_tasks[u]

\* C15: with a log channel set, every step that replies to a command leaves
\* the handler with the mirror of the exchange still ahead of it: its
\* log_message, or the creation of the task that mirrors the result.
C15_EveryReplyMirrored ==
    [][LOG_CHANNEL_ID # "" /\ out'.kind = "reply"
       => \E h \in Handlers :
             /\ handlers'[h].user = out'.to
             /\ handlers'[h].resp = out'.text
             /\ handlers'[h].pc \in {"log", "replied", "spawn"}]_vars

\* the dispatch of an /ai and the rest of a handler that was refused for
\* the cooldown
C16_Step ==
    \A h \in Handlers :
        /\ Dispatched(h, "ai") =>
              IF handlers'[h].resp = WAIT
              THEN UNCHANGED <<mem, tasks>>
              ELSE /\ last_ai_use' =
                         Put(last_ai_use, handlers'[h].user, clock)
                   /\ UNCHANGED <<user_tasks, user_images, tasks>>
        /\ handlers[h].cmd = "ai" /\ handlers[h].resp = WAIT /\ Stepped(h)
           => /\ UNCHANGED <<mem, tasks>>
              /\ handlers'[h] = Idle

\* C16: an /ai that passes the cooldown sets last_ai_use[U] to the date of
\* its message; no step of an /ai refused for the cooldown changes
\* last_ai_use, user_tasks or user_images, and it creates no task.
C16_RateLimiterFrame == [][C16_Step]_vars

\* an /ai one second after the accepted one has been refused; the recorded
\* date is still that of the accepted one
C16_Witness ==
    \E h \in Handlers :
        /\ handlers[h].cmd = "ai" /\ handlers[h].resp = WAIT
        /\ handlers[h].pc = "log"
        /\ last_ai_use[handlers[h].user] = 1 /\ clock = 2
        /\ \E t \in 1..Len(tasks) : tasks[t].user = handlers[h].user

\* the index of the request a /proai task has made last
Made(T) ==
    IF T.pc \in {"photo", "logged", "notice", "notice_logged"}
    THEN T.i + 1 ELSE T.i

\* how far a /proai task is: it grows with every step the task takes
Rank(T) ==
    IF T.pc = "done" THEN 5 * ProSteps + 5
    ELSE 5 * T.i + (CASE T.pc \in {"start", "sleep"} -> 0
                      [] T.pc = "photo" -> 1
                      [] T.pc = "logged" -> 2
                      [] T.pc = "notice" -> 3
                      [] T.pc = "notice_logged" -> 4)

C18_Inv ==
    \A t \in 1..Len(tasks) :
        tasks[t].kind = "proai" =>
            /\ tasks[t].requests <= ProSteps
            /\ ~done(t) => tasks[t].requests = Made(tasks[t])
            /\ done(t) => tasks[t].requests \in {tasks[t].i, tasks[t].i + 1}
            /\ tasks[t].photos =
                  tasks[t].requests - (IF tasks[t].failed > 0 THEN 1 ELSE 0)
            /\ done(t) /\ tasks[t].failed = 0 /\ ~tasks[t].cancelled
               => /\ tasks[t].requests = ProSteps
                  /\ tasks[t].photos = ProSteps

C18_Step ==
    \A t \in 1..Len(tasks) :
        tasks[t].kind = "proai" =>
            /\ tasks'[t].requests \in {tasks[t].requests, tasks[t].requests + 1}
            /\ Rank(tasks'[t]) >= Rank(tasks[t])
            /\ tasks'[t].pc # tasks[t].pc \/ tasks'[t].i # tasks[t].i
               => Rank(tasks'[t]) > Rank(tasks[t])

\* C18: a /proai task makes at most 15 generation requests, the k-th in
\* turn k of its loop, and every step it takes brings it nearer to its end;
\* one that ends without a failed request and without cancellation has made
\* 15 requests and delivered 15 images; in all cases the images delivered
\* are the requests that succeeded.
C18_ProaiBounded == []C18_Inv /\ [][C18_Step]_vars

\* a /proai task has run to its end: 15 requests, 15 images
C18_Witness ==
    \E t \in 1..Len(tasks) :
        /\ tasks[t].kind = "proai" /\ done(t)
        /\ ~tasks[t].must_cancel /\ tasks[t].failed = 0
        /\ tasks[t].requests = 15 /\ tasks[t].photos = 15

\* what a cancel command does, whichever of the two it is and whichever
\* command created the task
C19_Step ==
    /\ \A u \in Users :
          out'.kind = "reply" /\ out'.to = u /\ out'.text \in Canceled \cup NoActive
          => IF u \in DOMAIN user_tasks /\ ~done(user_tasks[u])
             THEN /\ out'.text \in Canceled
                  /\ tasks' = [tasks EXCEPT ![user_tasks[u]].must_cancel = TRUE]
             ELSE /\ out'.text \in NoActive
                  /\ tasks' = tasks
    /\ \A t \in 1..Len(tasks) :
          user_tasks[tasks[t].user] # t
          => tasks'[t].must_cancel = tasks[t].must_cancel

\* C19: /cancelai and /cancelproai act alike on the one registry: each
\* requests the cancellation of the caller's registered unfinished task,
\* created by /ai or by /proai, and no step requests the cancellation of a
\* task that has been overwritten in the registry.
C19_SharedRegistry == [][C19_Step]_vars

\* /cancelai has cancelled the /proai task that overwrote the user's /ai
\* task; the /ai task is still running and carries no request
C19_Witness ==
    \E u \in Users, t \in 1..Len(tasks) :
        /\ out = Msg("reply", u, CANCELED_AI)
        /\ tasks[user_tasks[u]].kind = "proai"
        /\ tasks[user_tasks[u]].must_cancel
        /\ t < user_tasks[u] /\ tasks[t].user = u /\ tasks[t].kind = "ai"
        /\ ~done(t) /\ ~tasks[t].must_cancel

\* the users with plan 'professional', and the number of documents removed
\* from the gift codes so far
Professionals ==
    {u \in Users : Plan(subscriptions_collection, u) = "professional"}
RECURSIVE Sum(_, _)
Sum(f, S) == IF S = {} THEN 0
             ELSE LET x == CHOOSE x \in S : TRUE IN f[x] + Sum(f, S \ {x})
Consumed == Sum(consumed, Users)

C20_Inv ==
    /\ \A u \in Professionals : consumed[u] >= 1
    /\ Cardinality(Professionals) <= Consumed
    /\ Consumed = Cardinality(PlanCodes \ gift_codes_collection)
    /\ \A h \in Handlers :
          handlers[h].cmd = "proai" /\ handlers[h].subscription = "professional"
          => consumed[handlers[h].user] >= 1

\* C20: a user's plan is 'professional' only if a /redeem of that user has
\* removed a gift code before; a plan that is 'professional' stays so; the
\* users with plan 'professional' are never more than the codes removed.
C20_ProfessionalByRedeem ==
    /\ []C20_Inv
    /\ [][\A u \in Users :
             Plan(subscriptions_collection, u) = "professional"
             => Plan(subscriptions_collection', u) = "professional"]_vars

\* both users have redeemed a code each and /proai has found the plan of
\* one of them
C20_Witness ==
    /\ Professionals = Users
    /\ consumed = [u \in Users |-> 1]
    /\ gift_codes_collection = {}
    /\ \E h \in Handlers :
          handlers[h].cmd = "proai" /\ handlers[h].subscription = "professional"

\* the entry of v in a dict
Entry(d, v) == IF v \in DOMAIN d THEN <<TRUE, d[v]>> ELSE <<FALSE>>

\* the step is one of a handler invocation of u, of a cancel command of u,
\* or of a task u started
ActsFor(u) ==
    \/ \E h \in Handlers :
          /\ Stepped(h)
          /\ u = IF handlers[h].cmd = "idle" THEN handlers'[h].user
                 ELSE handlers[h].user
    \/ out'.kind = "reply" /\ out'.to = u /\ out'.text \in Canceled \cup NoActive
    \/ \E t \in 1..Len(tasks) : tasks[t].user = u /\ tasks'[t].pc # tasks[t].pc

\* the step changes what the program holds for v
Touches(v) ==
    \/ Entry(last_ai_use', v) # Entry(last_ai_use, v)
    \/ Entry(user_tasks', v) # Entry(user_tasks, v)
    \/ Entry(user_images', v) # Entry(user_images, v)
    \/ Entry(subscriptions_collection', v) # Entry(subscriptions_collection, v)
    \/ \E t \in 1..Len(tasks) : tasks[t].user = v /\ tasks'[t] # tasks[t]

\* C17: for distinct users U and V, no step of a handler invocation of U and
\* no step of a task U started changes V's entry in last_ai_use, user_tasks,
\* user_images or the subscriptions, or any task of V.
C17_NoCrossUser ==
    [][\A u \in Users : ActsFor(u) => \A v \in Users \ {u} : ~Touches(v)]_vars

\* both users have a date and a task; user 2 cancelled its own task while the
\* task of user 1, who has redeemed the code, runs on untouched
C17_Witness ==
    /\ DOMAIN last_ai_use = Users /\ DOMAIN user_tasks = Users
    /\ out = Msg("reply", 2, CANCELED_AI)
    /\ tasks[user_tasks[2]].must_cancel
    /\ ~done(user_tasks[1]) /\ ~tasks[user_tasks[1]].must_cancel
    /\ tasks[user_tasks[1]].pc = "photo"
    /\ consumed[1] = 1 /\ subscriptions_collection = [u \in Users |-> "professional"]

\* the /redeem invocations of u that hold a removed document and have not
\* made their upsert yet
MidFlight(u) ==
    {h \in Handlers : /\ handlers[h].cmd = "redeem" /\ handlers[h].user = u
                      /\ handlers[h].gift_code /\ handlers[h].pc = "deleted"}

\* whoever has removed a code is a subscriber or about to become one
C21_Inv ==
    \A u \in Users :
        consumed[u] >= 1 => u \in Professionals \/ MidFlight(u) # {}

\* the delete and the upsert are two steps of the handler
C21_Step ==
    /\ gift_codes_collection' # gift_codes_collection
       => /\ UNCHANGED subscriptions_collection
          /\ \E h \in Handlers :
                /\ Dispatched(h, "redeem")
                /\ handlers'[h].pc = "deleted" /\ handlers'[h].gift_code
    /\ subscriptions_collection' # subscriptions_collection
       => /\ UNCHANGED gift_codes_collection
          /\ \E h \in Handlers :
                /\ h \in MidFlight(handlers[h].user)
                /\ handlers'[h].pc = "upserted"

\* C21: /redeem removes the code in one step and sets the plan in a later
\* one, and other handlers run in between; with the handler resumed after
\* its delete, every user who has removed a code comes to have plan
\* 'professional'; in every state where no /redeem holds a removed document
\* before its upsert, everyone who has removed a code has plan 'professional'.
C21_ConsumedThenGranted ==
    /\ []C21_Inv
    /\ [][C21_Step]_vars
    /\ \A u \in Users : (consumed[u] >= 1) ~> (u \in Professionals)

\* between the two store steps of a user's /redeem: the code is gone, the
\* plan is not yet set, and the last step was the refusal of a /proai
C21_Witness ==
    \E u \in Users :
        /\ consumed[u] = 1 /\ u \notin Professionals
        /\ MidFlight(u) # {}
        /\ out.kind = "reply" /\ out.text = NEED_REDEEM
====
